---- MODULE Spec2Model ----
(***************************************************************************)
(* TranscriptSpider (youtube_scraper/spiders/transcript_spider.py).        *)
(*                                                                         *)
(* One run of the spider: the engine downloads the start URL and hands the *)
(* page to parse(), which carves the ytInitialPlayerResponse object out of *)
(* the script text, picks a caption track and yields one Request; the      *)
(* engine downloads that URL and hands the XML to parse_transcript(),      *)
(* which joins and normalises the text nodes and yields one item.          *)
(*                                                                         *)
(* A script text is a sequence of tokens.  A token is a record with the    *)
(* field ch naming the lexeme; a caption track element                     *)
(*   {"languageCode": l, "baseUrl": u}                                     *)
(* is the one token with ch = "T", carrying its two fields.  A missing or  *)
(* empty languageCode is "" (track.get('languageCode', '')), a missing or  *)
(* empty baseUrl is 0 (falsy in `if not transcript_url`); URLs are 1, 2,.. *)
(*   "var"  the text `var ytInitialPlayerResponse`                         *)
(*   "="    the assignment sign (with the \s* around it)                   *)
(*   "{"    opens an object (as a member of an object: `"key": {`)         *)
(*   "}"    closes an object        ";"  a statement terminator            *)
(*   "q"    a double quote: q ... q is a string (as a member: a key with   *)
(*          a string value)                                                *)
(*   "C"    the text `"captions": {"playerCaptionsTracklistRenderer":      *)
(*          {"captionTracks": [`: it opens two objects and the list        *)
(*   "]"    closes the list; the two objects are closed by "}" "}"         *)
(***************************************************************************)
EXTENDS Integers, Sequences, FiniteSets, TLC

VARIABLES start_urls, pc, response, caption_tracks, transcript_url,
          requests, items, errors, trace

vars == <<start_urls, pc, response, caption_tracks, transcript_url,
          requests, items, errors, trace>>

\* Bounds of the model.
MaxTracks == 3
MaxNodes == 3
MaxChars == 3

----------------------------------------------------------------------------
\* Tokens

Sym(c) == [ch |-> c, languageCode |-> "", baseUrl |-> 0]

Track(l, u) == [ch |-> "T", languageCode |-> l, baseUrl |-> u]

\* track.get(...) works on a dict only; a string element of
\* captionTracks has no .get and raises AttributeError.
IsDict(t) == t.ch = "T"

preferred_languages == <<"en", "en-US", "id", "en-GB">>

InPreferred(code) == \E k \in 1..Len(preferred_languages) : preferred_languages[k] = code

\* Error messages logged by the spider (the f-string tails left out).
E_NO_SCRIPT == "Could not find ytInitialPlayerResponse in the page"
E_NO_MATCH == "Could not extract JSON from ytInitialPlayerResponse"
E_NO_CAPTIONS == "No captions found in player response"
E_NO_TRACKS == "No caption tracks found"
E_NO_URL == "No valid transcript URL found"
E_JSON == "Failed to parse JSON"
E_UNEXPECTED == "Unexpected error while parsing"
E_NO_TEXT == "No text nodes found in transcript XML"

----------------------------------------------------------------------------
\* parse(): locating and carving the object literal

xpath_first_script(body) == body

\* response.xpath('//script[contains(text(), "var ytInitialPlayerResponse")]/text()').get()
\* The text of the script that contains the marker, None (<<>>) without one.
xpath_script(body) ==
    IF \E i \in 1..Len(body) : body[i].ch = "var" THEN body ELSE <<>>

\* The regular expression matches at i: the marker, `=`, `{`, and then, lazily,
\* anything up to a `}` that a `;` follows.
MatchesAt(s, i) ==
    /\ i + 2 <= Len(s)
    /\ s[i].ch = "var"
    /\ s[i+1].ch = "="
    /\ s[i+2].ch = "{"
    /\ \E j \in (i+3)..(Len(s)-1) : s[j].ch = "}" /\ s[j+1].ch = ";"

\* `.*?` is lazy: the group ends at the first `}` followed by `;`.
GroupEnd(s, i) ==
    CHOOSE j \in (i+3)..(Len(s)-1) :
        /\ s[j].ch = "}" /\ s[j+1].ch = ";"
        /\ \A k \in (i+3)..(j-1) : ~(s[k].ch = "}" /\ s[k+1].ch = ";")

\* re.search(r'var ytInitialPlayerResponse\s*=\s*({.*?});', script_content,
\* re.DOTALL) followed by .group(1): the leftmost match; <<>> is no match.
re_search(s) ==
    IF \E i \in 1..Len(s) : MatchesAt(s, i)
    THEN LET i == CHOOSE i \in 1..Len(s) :
                     MatchesAt(s, i) /\ \A k \in 1..(i-1) : ~MatchesAt(s, k)
         IN  SubSeq(s, i + 2, GroupEnd(s, i))
    ELSE <<>>

\* json.loads: one pass over the tokens with the stack of open brackets.
\* Result: ok (FALSE is JSONDecodeError), has_captions (the top-level object
\* has the captions member) and tracks (the elements of its captionTracks;
\* with the member repeated, the last one wins as in a Python dict).
\* An element of captionTracks is a track, an object without the two fields
\* (Track("", 0)) or a string (Sym("q")).
OnPath(stack) == stack = <<"{", "{", "{", "[">>

Pop(stack) == SubSeq(stack, 1, Len(stack) - 1)

Top(stack) == stack[Len(stack)]

JsonError == [ok |-> FALSE, has_captions |-> FALSE, tracks |-> <<>>]

RECURSIVE json_scan(_, _, _, _, _, _)
json_scan(s, i, stack, instr, seen, acc) ==
    IF i > Len(s)
    THEN IF stack = <<>> /\ ~instr /\ Len(s) > 0
         THEN [ok |-> TRUE, has_captions |-> seen, tracks |-> acc]
         ELSE JsonError
    ELSE LET c == s[i].ch IN
      IF instr
      THEN IF c = "q"
           THEN json_scan(s, i + 1, stack, FALSE, seen,
                          IF OnPath(stack) THEN Append(acc, Sym("q")) ELSE acc)
           ELSE json_scan(s, i + 1, stack, TRUE, seen, acc)
      ELSE IF stack = <<>>
      THEN IF i = 1 /\ c = "{"
           THEN json_scan(s, 2, <<"{">>, FALSE, seen, acc)
           ELSE JsonError                              \* extra data
      ELSE IF c = "q"
      THEN json_scan(s, i + 1, stack, TRUE, seen, acc)
      ELSE IF c = "{"
      THEN json_scan(s, i + 1, Append(stack, "{"), FALSE, seen, acc)
      ELSE IF c = "C"
      THEN IF Top(stack) # "{"
           THEN JsonError                              \* a key inside a list
           ELSE IF stack = <<"{">>
           THEN json_scan(s, i + 1, stack \o <<"{", "{", "[">>, FALSE, TRUE, <<>>)
           ELSE json_scan(s, i + 1, stack \o <<"{", "{", "[">>, FALSE, seen, acc)
      ELSE IF c = "}"
      THEN IF Top(stack) # "{"
           THEN JsonError
           ELSE json_scan(s, i + 1, Pop(stack), FALSE, seen,
                          IF OnPath(Pop(stack)) THEN Append(acc, Track("", 0)) ELSE acc)
      ELSE IF c = "]"
      THEN IF Top(stack) # "["
           THEN JsonError
           ELSE json_scan(s, i + 1, Pop(stack), FALSE, seen, acc)
      ELSE IF c = "T"
      THEN json_scan(s, i + 1, stack, FALSE, seen,
                     IF OnPath(stack) THEN Append(acc, s[i]) ELSE acc)
      ELSE JsonError                                   \* var, =, ; outside a string

json_loads(json_str) == json_scan(json_str, 1, <<>>, FALSE, FALSE, <<>>)

----------------------------------------------------------------------------
\* parse(): choosing the track

\* for track in caption_tracks: ... if language_code in preferred_languages:
\* the loop stops at the first element that is in the preferred list, or that
\* is no dict (track.get raises there).  0: the loop ran to its end.
LoopStop(tracks) ==
    IF \E i \in 1..Len(tracks) : ~IsDict(tracks[i]) \/ InPreferred(tracks[i].languageCode)
    THEN CHOOSE i \in 1..Len(tracks) :
            /\ ~IsDict(tracks[i]) \/ InPreferred(tracks[i].languageCode)
            /\ \A k \in 1..(i-1) : IsDict(tracks[k]) /\ ~InPreferred(tracks[k].languageCode)
    ELSE 0

\* The loop raises AttributeError when it meets an element that is no dict.
LoopRaises(tracks) == LoopStop(tracks) # 0 /\ ~IsDict(tracks[LoopStop(tracks)])

\* transcript_url after the loop: track.get('baseUrl') of the element the loop
\* stopped at, None (0) when it ran to its end.
preferred_url(tracks) ==
    IF LoopStop(tracks) = 0 THEN 0 ELSE tracks[LoopStop(tracks)].baseUrl

last_available(tracks) == tracks[Len(tracks)].baseUrl

\* caption_tracks[0].get('baseUrl')
first_available(tracks) == tracks[1].baseUrl

\* if not transcript_url and caption_tracks: transcript_url = caption_tracks[0].get('baseUrl')
select_url(tracks) ==
    IF preferred_url(tracks) = 0 /\ tracks # <<>>
    THEN first_available(tracks)
    ELSE preferred_url(tracks)

except_generic(exc) == E_UNEXPECTED

\* The except clauses of parse(): the message logged for an exception.
except_message(exc) ==
    IF exc = "JSONDecodeError" THEN E_JSON ELSE E_UNEXPECTED

\* The body of parse() on a page: the error it logs ("" for none), the
\* caption tracks it read, the URL it chose and the requests it yields.
Outcome(err, tracks, url) ==
    [error |-> err, caption_tracks |-> tracks, transcript_url |-> url,
     requests |-> IF err = "" THEN <<url>> ELSE <<>>]

parse_result(body) ==
    LET script_content == xpath_script(body)
        json_str == re_search(script_content)
        player_response == json_loads(json_str)
        tracks == player_response.tracks
    IN  IF script_content = <<>> THEN Outcome(E_NO_SCRIPT, <<>>, 0)
        ELSE IF json_str = <<>> THEN Outcome(E_NO_MATCH, <<>>, 0)
        ELSE IF ~player_response.ok THEN Outcome(except_message("JSONDecodeError"), <<>>, 0)
        ELSE IF ~player_response.has_captions THEN Outcome(E_NO_CAPTIONS, <<>>, 0)
        ELSE IF tracks = <<>> THEN Outcome(E_NO_TRACKS, <<>>, 0)
        ELSE IF LoopRaises(tracks) THEN Outcome(except_message("AttributeError"), tracks, 0)
        ELSE IF select_url(tracks) = 0 THEN Outcome(E_NO_URL, tracks, 0)
        ELSE Outcome("", tracks, select_url(tracks))

----------------------------------------------------------------------------
\* parse_transcript(): the transcript text
\* A caption document is a sequence of elements [tag, text]; a text is a
\* sequence of characters.

IsSpace(c) == c \in {" ", "\t", "\n"}

\* response.xpath('//text/text()').getall(): the text nodes of the <text>
\* elements, in document order; an empty element has no text node.
xpath_text(doc) ==
    LET IsTextNode(e) == e.tag = "text" /\ e.text # <<>>
        nodes == SelectSeq(doc, IsTextNode)
    IN  [i \in 1..Len(nodes) |-> nodes[i].text]

RECURSIVE join_nosep(_)
join_nosep(text_nodes) ==
    IF text_nodes = <<>> THEN <<>> ELSE text_nodes[1] \o join_nosep(Tail(text_nodes))

\* ' '.join(text_nodes)
RECURSIVE join(_)
join(text_nodes) ==
    IF text_nodes = <<>> THEN <<>>
    ELSE IF Len(text_nodes) = 1 THEN text_nodes[1]
    ELSE text_nodes[1] \o <<" ">> \o join(Tail(text_nodes))

\* re.sub(r'\s+', ' ', s): every maximal run of whitespace becomes one space.
RECURSIVE re_sub(_)
re_sub(s) ==
    IF s = <<>> THEN <<>>
    ELSE IF ~IsSpace(s[1]) THEN <<s[1]>> \o re_sub(Tail(s))
    ELSE IF Len(s) > 1 /\ IsSpace(s[2]) THEN re_sub(Tail(s))
    ELSE <<" ">> \o re_sub(Tail(s))

\* str.strip()
RECURSIVE lstrip(_)
lstrip(s) == IF s # <<>> /\ IsSpace(s[1]) THEN lstrip(Tail(s)) ELSE s

RECURSIVE rstrip(_)
rstrip(s) ==
    IF s # <<>> /\ IsSpace(s[Len(s)]) THEN rstrip(SubSeq(s, 1, Len(s) - 1)) ELSE s

strip(s) == rstrip(lstrip(s))

strip_only(s) == strip(s)

\* re.sub(r'\s+', ' ', transcript_text).strip()
clean(s) == strip(re_sub(s))

\* str.split(): the maximal runs of non-whitespace characters.
WordLen(s) ==
    IF \E i \in 1..Len(s) : IsSpace(s[i])
    THEN (CHOOSE i \in 1..Len(s) : IsSpace(s[i]) /\ \A k \in 1..(i-1) : ~IsSpace(s[k])) - 1
    ELSE Len(s)

RECURSIVE split(_)
split(s) ==
    IF s = <<>> THEN <<>>
    ELSE IF IsSpace(s[1]) THEN split(Tail(s))
    ELSE <<SubSeq(s, 1, WordLen(s))>> \o split(SubSeq(s, WordLen(s) + 1, Len(s)))

\* len(transcript_text.split(' ')) in place of len(transcript_text.split())
transcript_item_split_space(transcript_text, video_url) ==
    [transcript_text |-> transcript_text,
     video_url |-> video_url,
     character_count |-> Len(transcript_text),
     word_count |-> Len(SelectSeq(transcript_text, IsSpace)) + 1]

\* The item parse_transcript() yields.
transcript_item(transcript_text, video_url) ==
    [transcript_text |-> transcript_text,
     video_url |-> video_url,
     character_count |-> Len(transcript_text),
     word_count |-> Len(split(transcript_text))]

transcript_items_no_return(text_nodes, video_url) ==
    <<transcript_item(clean(join(text_nodes)), video_url)>>

\* if not text_nodes: log and return; else yield the item.
transcript_items(text_nodes, video_url) ==
    IF text_nodes = <<>> THEN <<>>
    ELSE <<transcript_item(clean(join(text_nodes)), video_url)>>

----------------------------------------------------------------------------
\* The responses a run may receive

VIDEO_URL == "https://www.youtube.com/watch?v=VIDEO"

Codes == {"en", "id", "en-GB", "fr", ""}

\* The i-th element of captionTracks: any language code, with its own URL
\* (i) or without one.
TrackLists ==
    UNION { { [i \in 1..n |-> Track(c[i], IF u[i] THEN i ELSE 0)] :
                c \in [1..n -> Codes], u \in [1..n -> BOOLEAN] } : n \in 0..MaxTracks }

Toks(chs) == [i \in 1..Len(chs) |-> Sym(chs[i])]

\* Pages carrying every track list in a well-formed assignment.
TrackBodies ==
    { Toks(<<"var", "=", "{", "C">>) \o t \o Toks(<<"]", "}", "}", "}", ";">>) :
        t \in TrackLists }

\* Pages around a small captions member: script before the marker, the marker
\* with or without its assignment, members before and after the captions
\* member (strings that hold `};`, an unterminated string, a nested object),
\* the closing brace and the terminator present or cut off, script after.
Before == { <<>>, Toks(<<"{", "}", ";">>), Toks(<<"var", ";">>) }

Heads == { <<>>, Toks(<<"var">>), Toks(<<"var", "=">>) }

Members ==
    { <<>>, Toks(<<"q", "q">>), Toks(<<"q", "}", ";", "q">>), Toks(<<"{", "}">>), Toks(<<"q">>) }

Captions ==
    { <<>>,
      Toks(<<"C", "]", "}", "}">>),
      <<Sym("C"), Track("fr", 1), Sym("]"), Sym("}"), Sym("}")>>,
      <<Sym("C"), Track("fr", 1), Track("en", 2), Sym("]"), Sym("}"), Sym("}")>>,
      <<Sym("C"), Sym("q"), Sym("q"), Track("en", 2), Sym("]"), Sym("}"), Sym("}")>>,
      <<Sym("C"), Track("en", 1), Sym("q"), Sym("q"), Sym("]"), Sym("}"), Sym("}")>>,
      <<Sym("C"), Track("fr", 1), Sym("]"), Sym("}")>> }

Closings == { Toks(<<"}", ";">>), Toks(<<"}">>), Toks(<<";">>), <<>> }

After == { <<>>, Toks(<<"}", ";">>) }

SyntaxBodies ==
    { b \o h \o Toks(<<"{">>) \o m1 \o c \o m2 \o z \o a :
        b \in Before, h \in Heads, m1 \in Members, c \in Captions,
        m2 \in Members, z \in Closings, a \in After }

PageBodies == TrackBodies \cup SyntaxBodies

Chars == {"a", " ", "\t", "\n"}

Texts == UNION { [1..n -> Chars] : n \in 0..MaxChars }

\* The k pieces of s cut at the positions cut[1] <= ... <= cut[k-1].
Piece(s, cut, k, i) ==
    SubSeq(s, (IF i = 1 THEN 0 ELSE cut[i-1]) + 1, IF i = k THEN Len(s) ELSE cut[i])

\* Caption documents: up to MaxNodes elements holding up to MaxChars
\* characters together, each a <text> element or another element.
Cuts(s, k) ==
    { f \in [1..(k-1) -> 0..Len(s)] : \A i \in 1..(k-2) : f[i] <= f[i+1] }

Document(s, k, tags, cut) ==
    [i \in 1..k |-> [tag |-> tags[i], text |-> Piece(s, cut, k, i)]]

----------------------------------------------------------------------------
\* The run

Init ==
    /\ start_urls \in { <<>>, <<VIDEO_URL>> }
    /\ pc = "start"
    /\ response = <<>>
    /\ caption_tracks = <<>>
    /\ transcript_url = 0
    /\ requests = <<>>
    /\ items = <<>>
    /\ errors = <<>>
    /\ trace = <<>>

\* The engine downloads start_urls[0] and calls parse() with the page.
DownloadPage ==
    /\ pc = "start"
    /\ start_urls # <<>>
    /\ \E body \in PageBodies : response' = body
    /\ pc' = "parse"
    /\ trace' = Append(trace, "download:page")
    /\ UNCHANGED <<start_urls, caption_tracks, transcript_url, requests, items, errors>>

\* A download fails (status, transport): no callback is called.
DownloadFailed ==
    /\ \/ pc = "start" /\ start_urls # <<>>
       \/ pc = "downloading"
    /\ pc' = "done"
    /\ trace' = Append(trace, "download:failed")
    /\ UNCHANGED <<start_urls, response, caption_tracks, transcript_url, requests,
                   items, errors>>

\* parse(response)
Parse ==
    /\ pc = "parse"
    /\ LET r == parse_result(response) IN
         /\ caption_tracks' = r.caption_tracks
         /\ transcript_url' = r.transcript_url
         /\ requests' = requests \o r.requests
         /\ errors' = IF r.error = "" THEN errors ELSE Append(errors, r.error)
         /\ pc' = IF r.requests = <<>> THEN "done" ELSE "scheduled"
         /\ trace' = trace \o <<"parse">> \o [i \in 1..Len(r.requests) |-> "yield:request"]
    /\ UNCHANGED <<start_urls, response, items>>

\* The engine takes the Request parse() yielded and sends it; parse() has
\* returned, its frame and the page are released.
SendRequest ==
    /\ pc = "scheduled"
    /\ requests # <<>>
    /\ requests' = Tail(requests)
    /\ response' = <<>>
    /\ caption_tracks' = <<>>
    /\ transcript_url' = 0
    /\ pc' = "downloading"
    /\ trace' = Append(trace, "download:track")
    /\ UNCHANGED <<start_urls, items, errors>>

\* The caption document arrives and parse_transcript() is called with it.
DownloadTrack ==
    /\ pc = "downloading"
    /\ \E s \in Texts, k \in 0..MaxNodes :
         \E tags \in [1..k -> {"text", "p"}], cut \in Cuts(s, k) :
            response' = Document(s, k, tags, cut)
    /\ pc' = "parse_transcript"
    /\ UNCHANGED <<start_urls, caption_tracks, transcript_url, requests, items,
                   errors, trace>>

\* parse_transcript(response); meta['video_url'] is the page's URL.
ParseTranscript ==
    /\ pc = "parse_transcript"
    /\ LET text_nodes == xpath_text(response)
           yielded == transcript_items(text_nodes, start_urls[1])
       IN /\ items' = items \o yielded
          /\ errors' = IF text_nodes = <<>> THEN Append(errors, E_NO_TEXT) ELSE errors
          /\ trace' = trace \o <<"parse_transcript">> \o [i \in 1..Len(yielded) |-> "yield:item"]
    /\ pc' = "done"
    /\ UNCHANGED <<start_urls, response, caption_tracks, transcript_url, requests>>

Next ==
    \/ DownloadPage
    \/ DownloadFailed
    \/ Parse
    \/ SendRequest
    \/ DownloadTrack
    \/ ParseTranscript

Spec == Init /\ [][Next]_vars

----------------------------------------------------------------------------
\* Notions the properties are stated in

\* parse() has just run on the page: the page is still the response, and
\* caption_tracks, transcript_url are what parse() computed.
AfterParse ==
    /\ pc \in {"scheduled", "done"}
    /\ Len(trace) \in {2, 3}
    /\ trace[2] = "parse"

\* parse_transcript() has just run on the caption document.
AfterTranscript ==
    /\ pc = "done"
    /\ Len(trace) >= 5
    /\ trace[5] = "parse_transcript"

\* A CaptionTrack: an element exposing a language code and a resource URL.
Valid(t) == IsDict(t) /\ t.languageCode # "" /\ t.baseUrl # 0

AllValid(tracks) == \A i \in 1..Len(tracks) : Valid(tracks[i])

Occurs(code, tracks) == \E i \in 1..Len(tracks) : tracks[i].languageCode = code

SomePreferredOccurs(tracks) ==
    \E k \in 1..Len(preferred_languages) : Occurs(preferred_languages[k], tracks)

\* The earliest-priority preferred code that occurs among the tracks.
BestCode(tracks) ==
    LET k == CHOOSE k \in 1..Len(preferred_languages) :
                /\ Occurs(preferred_languages[k], tracks)
                /\ \A j \in 1..(k-1) : ~Occurs(preferred_languages[j], tracks)
    IN  preferred_languages[k]

\* The first track, in track order, with the given code.
FirstWith(code, tracks) ==
    CHOOSE i \in 1..Len(tracks) :
        /\ tracks[i].languageCode = code
        /\ \A j \in 1..(i-1) : tracks[j].languageCode # code

HasMarker(s) == \E i \in 1..Len(s) : s[i].ch = "var"

FirstMarker(s) ==
    CHOOSE i \in 1..Len(s) : s[i].ch = "var" /\ \A k \in 1..(i-1) : s[k].ch # "var"

\* The ends j of a well-formed object literal that starts right after the
\* assignment at i and that a `;` follows (there is at most one).
LiteralEnds(s, i) ==
    IF i + 2 <= Len(s) /\ s[i].ch = "var" /\ s[i+1].ch = "=" /\ s[i+2].ch = "{"
    THEN { j \in (i+3)..(Len(s)-1) :
             s[j+1].ch = ";" /\ json_loads(SubSeq(s, i + 2, j)).ok }
    ELSE {}

\* The spec's error kinds, as the messages the spider logs.
MarkerNotFound == {E_NO_SCRIPT}
MalformedPayload == {E_NO_MATCH, E_JSON}
NoCaptionTracks == {E_NO_CAPTIONS, E_NO_TRACKS, E_NO_URL}

----------------------------------------------------------------------------
\* C1: when some preferred code occurs among the tracks, the track requested
\* is the first track whose code is the earliest-priority preferred code that
\* occurs: preference order dominates track order.
C1_PreferenceOrderDominates ==
    (AfterParse /\ caption_tracks # <<>> /\ AllValid(caption_tracks)
       /\ SomePreferredOccurs(caption_tracks))
    => /\ pc = "scheduled"
       /\ requests =
            <<caption_tracks[FirstWith(BestCode(caption_tracks), caption_tracks)].baseUrl>>

\* C2: when no track's code is in the preference list, the URL selected is
\* that of tracks[0], whatever its language, and it is requested.
C2_FallbackFirstTrack ==
    (AfterParse /\ caption_tracks # <<>> /\ AllValid(caption_tracks)
       /\ ~SomePreferredOccurs(caption_tracks))
    => /\ transcript_url = caption_tracks[1].baseUrl
       /\ requests = <<caption_tracks[1].baseUrl>>
       /\ pc = "scheduled"

C2_Witness ==
    /\ AfterParse
    /\ Len(caption_tracks) >= 2
    /\ AllValid(caption_tracks)
    /\ ~SomePreferredOccurs(caption_tracks)
    /\ requests = <<caption_tracks[1].baseUrl>>
    /\ caption_tracks[2].baseUrl # caption_tracks[1].baseUrl

----------------------------------------------------------------------------
Pipeline ==
    <<"download:page", "parse", "yield:request", "download:track",
      "parse_transcript", "yield:item">>

IsPrefix(a, b) == Len(a) <= Len(b) /\ a = SubSeq(b, 1, Len(a))

Failed == errors # <<>> \/ \E i \in 1..Len(trace) : trace[i] = "download:failed"

\* C3: the stages run in pipeline order, each at most once: a record is
\* emitted only after the track fetch, the track is requested only after the
\* page was parsed and a URL selected; after a failure of any stage no later
\* stage runs and no record is emitted.
C3_PipelineOrder ==
    LET n == Len(trace)
        ran == IF n > 0 /\ trace[n] = "download:failed"
               THEN SubSeq(trace, 1, n - 1) ELSE trace
    IN  /\ IsPrefix(ran, Pipeline)
        /\ Len(requests) <= 1
        /\ Len(items) <= 1
        /\ (n > 0 /\ trace[n] = "yield:request")
              => /\ errors = <<>>
                 /\ caption_tracks # <<>>
                 /\ transcript_url # 0
                 /\ requests = <<transcript_url>>
        /\ items # <<>> => ran = Pipeline /\ errors = <<>>
        /\ Failed => /\ pc = "done"
                     /\ items = <<>>
                     /\ requests = <<>>
                     /\ Len(errors) <= 1
                     /\ trace[n] \in {"parse", "parse_transcript", "download:failed"}

C3_Witness == pc = "done" /\ trace = Pipeline /\ Len(items) = 1

\* C4: a page without the marker ends in the marker-not-found outcome: no
\* track list, no request, and no other failure reported.
C4_MarkerNotFound ==
    (AfterParse /\ ~HasMarker(response))
    => /\ errors = <<E_NO_SCRIPT>>
       /\ caption_tracks = <<>>
       /\ transcript_url = 0
       /\ requests = <<>>
       /\ pc = "done"

C4_Witness ==
    /\ AfterParse
    /\ ~HasMarker(response)
    /\ \E i \in 1..Len(response) : response[i].ch = "T"
    /\ errors = <<E_NO_SCRIPT>>

\* C5: the marker is present but no assignment of it is followed by an object
\* literal that parses and a `;`: the run ends in a malformed-payload outcome,
\* with no request and no record.
C5_MalformedPayload ==
    (AfterParse /\ HasMarker(response)
       /\ \A i \in 1..Len(response) : LiteralEnds(response, i) = {})
    => /\ Len(errors) = 1
       /\ errors[1] \in MalformedPayload
       /\ caption_tracks = <<>>
       /\ requests = <<>>
       /\ items = <<>>
       /\ pc = "done"

\* A truncated literal that the regular expression still delimits.
C5_Witness ==
    /\ AfterParse
    /\ HasMarker(response)
    /\ \A i \in 1..Len(response) : LiteralEnds(response, i) = {}
    /\ re_search(response) # <<>>
    /\ errors = <<E_JSON>>

\* The text of the <text> elements of a document, in document order.
RECURSIVE AllText(_)
AllText(doc) ==
    IF doc = <<>> THEN <<>>
    ELSE (IF doc[1].tag = "text" THEN doc[1].text ELSE <<>>) \o AllText(Tail(doc))

RECURSIVE WordsIn(_)
WordsIn(doc) ==
    IF doc = <<>> THEN 0
    ELSE (IF doc[1].tag = "text" THEN Len(split(doc[1].text)) ELSE 0) + WordsIn(Tail(doc))

NonSpace(s) == LET Solid(c) == ~IsSpace(c) IN SelectSeq(s, Solid)

TextBearing(doc) == { i \in 1..Len(doc) : doc[i].tag = "text" /\ doc[i].text # <<>> }

C7_NormalForm ==
    (AfterTranscript /\ items # <<>>)
    => LET t == items[1].transcript_text IN
         /\ \A i \in 1..Len(t) : t[i] \notin {"\n", "\t"}
         /\ \A i \in 1..(Len(t)-1) : ~(t[i] = " " /\ t[i+1] = " ")
         /\ t # <<>> => ~IsSpace(t[1]) /\ ~IsSpace(t[Len(t)])
         /\ clean(t) = t

\* Fragments with a newline, a run of whitespace and whitespace at the ends.
C7_Witness ==
    /\ AfterTranscript
    /\ items # <<>>
    /\ LET raw == join(xpath_text(response)) IN
         /\ Len(raw) >= 3
         /\ IsSpace(raw[1])
         /\ \E i \in 1..Len(raw) : raw[i] = "\n"
         /\ \E i \in 1..(Len(raw)-1) : IsSpace(raw[i]) /\ IsSpace(raw[i+1])
    /\ items[1].transcript_text # <<>>

\* The tokens of a text: the positions where a run of non-whitespace starts.
TokenStarts(t) == { i \in 1..Len(t) : ~IsSpace(t[i]) /\ (i = 1 \/ IsSpace(t[i-1])) }

\* C8: in every record character_count is the length of its transcript_text
\* and word_count the number of whitespace-delimited tokens of that text.
C8_CountsFromText ==
    \A k \in 1..Len(items) :
        /\ items[k].character_count = Len(items[k].transcript_text)
        /\ items[k].word_count = Cardinality(TokenStarts(items[k].transcript_text))

\* A record whose text is shorter than the joined fragments.
C8_Witness ==
    /\ AfterTranscript
    /\ Len(items) = 1
    /\ items[1].word_count >= 2
    /\ items[1].character_count < Len(join(xpath_text(response)))

\* C9: elements lacking a language code or a URL are skipped before the
\* selection: the run fails with the no-caption-tracks outcome exactly when no
\* element has both fields, and otherwise requests the URL of an element that
\* has both.
C9_MissingFieldsSkipped ==
    (AfterParse /\ caption_tracks # <<>>
       /\ \A i \in 1..Len(caption_tracks) : IsDict(caption_tracks[i]))
    => LET valid == SelectSeq(caption_tracks, Valid) IN
         /\ valid = <<>> => /\ requests = <<>>
                            /\ Len(errors) = 1
                            /\ errors[1] \in NoCaptionTracks
         /\ valid # <<>> => /\ errors = <<>>
                            /\ \E i \in 1..Len(valid) : requests = <<valid[i].baseUrl>>

\* C10: when the first marker is followed by a well-formed object literal and
\* its `;`, parse() reads that object: it reports no marker or payload failure
\* and its caption tracks are the literal's, in their order.
C10_DelimitsWholeLiteral ==
    (AfterParse /\ HasMarker(response)
       /\ LiteralEnds(response, FirstMarker(response)) # {})
    => LET i == FirstMarker(response)
           j == CHOOSE j \in LiteralEnds(response, i) : TRUE
           literal == json_loads(SubSeq(response, i + 2, j))
       IN  /\ \A k \in 1..Len(errors) : errors[k] \notin MarkerNotFound \cup MalformedPayload
           /\ literal.tracks # <<>> => caption_tracks = literal.tracks

====
